---- MODULE Spec2Model ----
(***************************************************************************)
(* Model of the deadline tracker: the offline asset cache controller       *)
(* (src/sw.js) and the dashboard / routine logic (src/app.js).             *)
(*                                                                         *)
(* SWSpec is the service worker: install, activate and fetch events as     *)
(* promise chains whose steps interleave with I/O outcomes.                *)
(* Spec is the foreground page: storage collections, the clock and the     *)
(* handlers that mutate storage and re-render the dashboard.               *)
(***************************************************************************)
EXTENDS Integers, Sequences, FiniteSets, TLC

(***************************************************************************)
(* Bounds of the model.                                                    *)
(***************************************************************************)
MaxFetch == 2
MaxSchedules == 2
MaxRoutines == 1
MaxId == 3
MaxClockSteps == 1
MaxTodos == 1
MaxMemos == 2
TicksPerDay == 2

(***************************************************************************)
(* src/sw.js constants.                                                    *)
(***************************************************************************)
CACHE_NAME == "deadline-app-v1"

ASSETS_TO_CACHE ==
    << "/", "/index.html", "/styles.css", "/app.js",
       "/holidays.js", "/manifest.json", "/icon-192.png", "/icon-512.png" >>

Range(s) == { s[i] : i \in DOMAIN s }

Assets == Range(ASSETS_TO_CACHE)

\* Cache identifiers that an earlier version or another script may have left.
StaleCacheNames == { "deadline-app-v0", "other-cache" }

\* Requests the running page issues: two shell assets and two other resources.
RequestUrls == { "/index.html", "/styles.css", "/data.json", "/about" }

Destinations == { "document", "script" }

\* Outcomes of a network fetch: 200/basic, a non-200 basic response, an
\* opaque cross-origin response, or a rejected promise.
NetOutcomes == { "ok200basic", "status404", "opaque", "reject" }

IoOutcomes == { "ok", "fail" }

NoFetch == [ pc |-> "idle", url |-> "", dest |-> "", hit |-> FALSE,
             net |-> "none", resp |-> "none" ]

VARIABLES
    caches,            \* CacheStorage: cache name -> set of stored request URLs
    swState,           \* lifecycle state of the worker
    installPc,         \* position in the install promise chain
    addAllResp,        \* cache.addAll: per asset "pending" | "ok" | "error"
    skipWaitingCalled, \* self.skipWaiting() has been reached
    activatePc,        \* position in the activate promise chain
    cacheNames,        \* result of caches.keys() in the activate handler
    deletePending,     \* caches.delete promises not yet settled
    clientsClaimed,    \* self.clients.claim() has been reached
    fetchEv,           \* fetch events: id -> record of the handler's progress
    nFetch,            \* number of fetch events dispatched so far
    putPending         \* URLs whose un-awaited cache.put has not run yet

swVars == << caches, swState, installPc, addAllResp, skipWaitingCalled,
             activatePc, cacheNames, deletePending, clientsClaimed,
             fetchEv, nFetch, putPending >>

VARIABLES
    now,               \* the clock, in ticks of local time (new Date())
    schedules,         \* localStorage deadline_schedules: sequence of items
    routines,          \* localStorage deadline_routines: sequence of routines
    routineChecks,     \* localStorage deadline_routine_checks: date-key -> ids
    nClock,            \* number of clock advances so far
    deleteTarget,      \* pending delete target, or NoTarget
    dashboard,         \* what updateDashboard rendered last
    todayRoutineList   \* what renderTodayRoutines rendered last

appVars == << now, schedules, routines, routineChecks, nClock,
              deleteTarget, dashboard, todayRoutineList >>

VARIABLES
    todos,             \* localStorage deadline_todos: sequence of to-dos
    memos,             \* localStorage deadline_memos: sequence of memos
    memoList           \* what renderMemoList rendered last

listVars == << todos, memos, memoList >>

VARIABLES
    checksCorrupt,     \* deadline_routine_checks holds text JSON.parse rejects
    lsRaw,             \* localStorage as the gateway sees it: key -> raw text
    lsRet              \* what the last gateway call returned to its caller

rawVars == << checksCorrupt, lsRaw, lsRet >>

\* What the page's routine and schedule handlers never touch.
notAppVars == << swVars, listVars, rawVars >>

\* What the service worker never touches.
notSWVars == << appVars, listVars, rawVars >>

vars == << swVars, appVars, listVars, rawVars >>

(***************************************************************************)
(* Cache API helpers.                                                      *)
(***************************************************************************)
\* caches.open(name): creates the cache when it does not exist.
CachesOpen(cs, name) ==
    IF name \in DOMAIN cs THEN cs
    ELSE [ n \in DOMAIN cs \cup {name} |-> IF n = name THEN {} ELSE cs[n] ]

\* cache.put / the batch store of cache.addAll on the named cache.
CachePutAll(cs, name, urls) ==
    [ CachesOpen(cs, name) EXCEPT ![name] = @ \cup urls ]

\* caches.delete(name)
CachesDelete(cs, name) == [ n \in DOMAIN cs \ {name} |-> cs[n] ]

\* caches.match(request): searches every cache of the origin.
CachesMatch(cs, url) == \E n \in DOMAIN cs : url \in cs[n]

(***************************************************************************)
(* src/app.js: dates and the clock.  A date string YYYY-MM-DD is the       *)
(* number of its day; an instant is a number of ticks of local time,       *)
(* TicksPerDay ticks to the day (a fixed-offset time zone).                *)
(***************************************************************************)
\* The days on which the page is first opened (day 18 is a Monday).
StartDays == { 18 }

\* Schedule dates a user enters, relative to the first day: the edge of the
\* retention window, today, and the first day past the urgent threshold.
\* A day later the same dates are one past each of these edges.
DateOffsets == { -14, 0, 4 }

ScheduleDates == { d + off : d \in StartDays, off \in DateOffsets }

\* How far the clock moves between two events: a tick, a day or a week.
ClockSteps == { 1, TicksPerDay, 7 * TicksPerDay }

Titles == { "", "t" }

Frequencies == { "", "daily", "weekly" }

\* Weekday selections of the routine form (0 = Sunday).
WeekdayChoices == { {}, {2}, {1, 3, 5} }

NoTarget == [ type |-> "none", id |-> 0 ]

\* Math.ceil(a / b) for b > 0
CeilDiv(a, b) == -((-a) \div b)

\* formatDateToString(date): the local calendar date of an instant.
formatDateToString(t) == t \div TicksPerDay

\* getTodayString()
getTodayString(t) == formatDateToString(t)

\* today.setHours(0, 0, 0, 0)
setHoursZero(t) == t - (t % TicksPerDay)

\* new Date(dateStr + 'T00:00:00'): local midnight of the date.
localMidnight(d) == d * TicksPerDay

\* today.getDay(): day 0 of the calendar (1970-01-01) was a Thursday.
getDay(t) == ((t \div TicksPerDay) + 4) % 7

\* getDaysRemaining(dateStr)
getDaysRemaining(d, t) ==
    CeilDiv(localMidnight(d) - setHoursZero(t), TicksPerDay)

(***************************************************************************)
(* src/app.js: the dashboard (updateDashboard, updateStats,                *)
(* renderScheduleList).                                                    *)
(***************************************************************************)
\* Variant of dashboardDue: the enabled flag is not looked at.
dashboardDue_IgnoreEnabled(r, dow) ==
    \/ r.frequency = "daily"
    \/ r.frequency = "weekly" /\ dow \in r.weekdays

\* The routine filter of updateDashboard (app.js 252-258).
dashboardDue(r, dow) ==
    /\ r.enabled
    /\ \/ r.frequency = "daily"
       \/ r.frequency = "weekly" /\ dow \in r.weekdays

\* .map(r => ({ id: `routine_${r.id}`, ..., date: todayStr, isRoutine: true }))
toFeedItem(r, todayStr) ==
    [ id |-> << "routine_", r.id >>, title |-> r.title, date |-> todayStr,
      isRoutine |-> TRUE ]

\* A stored schedule item as it stands in the feed (no isRoutine field).
scheduleItem(s) ==
    [ id |-> << "", s.id >>, title |-> s.title, date |-> s.date,
      isRoutine |-> FALSE ]

\* Mapping a function over a sequence (Array.prototype.map).
RECURSIVE MapFeed(_, _)
MapFeed(rs, todayStr) ==
    IF rs = << >> THEN << >>
    ELSE << toFeedItem(Head(rs), todayStr) >> \o MapFeed(Tail(rs), todayStr)

RECURSIVE MapSchedules(_)
MapSchedules(ss) ==
    IF ss = << >> THEN << >>
    ELSE << scheduleItem(Head(ss)) >> \o MapSchedules(Tail(ss))

\* schedules.filter(s => getDaysRemaining(s.date) >= -14)
isRecent(s, t) == getDaysRemaining(s.date, t) >= -14

\* Variant of statUrgent: today's items are left out of the urgent count.
statUrgent_ExcludeToday(days) == days > 0 /\ days <= 3

\* The predicates of updateStats (app.js 294-302).
statUrgent(days) == days >= 0 /\ days <= 3

statOverdue(days) == days < 0 /\ days >= -14

\* updateStats(schedules)
updateStats(recent, t) ==
    [ totalCount   |-> Len(recent),
      urgentCount  |-> Len(SelectSeq(recent,
                         LAMBDA s : statUrgent(getDaysRemaining(s.date, t)))),
      overdueCount |-> Len(SelectSeq(recent,
                         LAMBDA s : statOverdue(getDaysRemaining(s.date, t)))) ]

\* The comparator of the feed sort: daysA - daysB.
compareItems(a, b, t) == getDaysRemaining(a.date, t) - getDaysRemaining(b.date, t)

\* Array.prototype.sort is stable: an item goes after every item that does
\* not compare greater than it.
InsertSorted(sorted, x, t) ==
    LET k == Cardinality({ i \in DOMAIN sorted : compareItems(sorted[i], x, t) <= 0 })
    IN  SubSeq(sorted, 1, k) \o << x >> \o SubSeq(sorted, k + 1, Len(sorted))

RECURSIVE sortItems(_, _)
sortItems(items, t) ==
    IF items = << >> THEN << >>
    ELSE InsertSorted(sortItems(SubSeq(items, 1, Len(items) - 1), t),
                      items[Len(items)], t)

\* Variant of allItems: the routine occurrences are put first.
allItems_RoutinesFirst(validSchedules, todayRoutines) ==
    todayRoutines \o validSchedules

\* const allItems = [...validSchedules, ...todayRoutines]
allItems(validSchedules, todayRoutines) == validSchedules \o todayRoutines

\* The card class of renderScheduleList (app.js 328-331).
cardClass(days) ==
    IF days < 0 THEN "overdue"
    ELSE IF days = 0 THEN "today"
    ELSE IF days <= 3 THEN "urgent"
    ELSE ""

\* renderScheduleList(items): one card per item.
renderScheduleList(items, t) ==
    [ i \in DOMAIN items |->
        [ id |-> items[i].id, date |-> items[i].date,
          isRoutine |-> items[i].isRoutine,
          cardClass |-> cardClass(getDaysRemaining(items[i].date, t)) ] ]

\* Variant of storedAfterDashboard: the filtered list is written back.
storedAfterDashboard_Prune(scheds, t) ==
    SelectSeq(scheds, LAMBDA s : isRecent(s, t))

\* The schedule collection in storage when updateDashboard returns: the
\* function reads it with getSchedules() and never saves.
storedAfterDashboard(scheds, t) == scheds

\* updateDashboard(): the rendering, with the stored schedule collection.
updateDashboard(scheds, routs, t) ==
    LET todayStr       == getTodayString(t)
        dayOfWeek      == getDay(t)
        todayRoutines  == MapFeed(SelectSeq(routs,
                              LAMBDA r : dashboardDue(r, dayOfWeek)), todayStr)
        recentSchedules == SelectSeq(scheds, LAMBDA s : isRecent(s, t))
        validSchedules  == SelectSeq(scheds, LAMBDA s : isRecent(s, t))
        sortedItems    == sortItems(allItems(MapSchedules(validSchedules),
                                             todayRoutines), t)
    IN  [ stored   |-> storedAfterDashboard(scheds, t),
          todayStr |-> todayStr,
          stats    |-> updateStats(recentSchedules, t),
          list     |-> renderScheduleList(sortedItems, t) ]

(***************************************************************************)
(* src/app.js: today's routine checklist and the completion log.           *)
(***************************************************************************)
\* getRoutineChecks(): checks[todayKey] || []
getRoutineChecks(checks, t) ==
    IF getTodayString(t) \in DOMAIN checks THEN checks[getTodayString(t)]
    ELSE << >>

\* Variant of checklistDue: a weekly routine is listed on every weekday.
checklistDue_AnyWeekday(r, dow) ==
    /\ r.enabled
    /\ \/ r.frequency = "daily"
       \/ r.frequency = "weekly"

\* The routine filter of renderTodayRoutines (app.js 631-637).
checklistDue(r, dow) ==
    /\ r.enabled
    /\ \/ r.frequency = "daily"
       \/ r.frequency = "weekly" /\ dow \in r.weekdays

RECURSIVE MapChecklist(_, _)
MapChecklist(rs, checks) ==
    IF rs = << >> THEN << >>
    ELSE << [ id |-> Head(rs).id,
              isChecked |-> Head(rs).id \in Range(checks) ] >>
         \o MapChecklist(Tail(rs), checks)

\* renderTodayRoutines(): the visible checklist (hidden when empty).
renderTodayRoutines(routs, checks, t) ==
    MapChecklist(SelectSeq(routs, LAMBDA r : checklistDue(r, getDay(t))),
                 getRoutineChecks(checks, t))

\* new Date(key): a date-only string is parsed as UTC midnight, which is tz
\* ticks after local midnight of that date.
utcMidnight(key, tz) == key * TicksPerDay + tz

\* Offsets of local time from UTC, in ticks.
TzOffsets == { -1, 0, 1 }

\* saveRoutineChecks(checkedIds): prune keys older than a week, set today's.
saveRoutineChecks(checks, checkedIds, t, tz) ==
    LET todayKey == getTodayString(t)
        weekAgo  == t - 7 * TicksPerDay
        kept     == { k \in DOMAIN checks : ~(utcMidnight(k, tz) < weekAgo) }
    IN  [ k \in kept \cup { todayKey } |->
            IF k = todayKey THEN checkedIds ELSE checks[k] ]

\* checks.indexOf(id) === -1 ? push(id) : splice(index, 1)
RemoveFirst(seq, id) ==
    LET i == CHOOSE j \in DOMAIN seq :
                 seq[j] = id /\ \A k \in 1..(j - 1) : seq[k] # id
    IN  SubSeq(seq, 1, i - 1) \o SubSeq(seq, i + 1, Len(seq))

\* Variant of toggleMember: the id is pushed whether present or not.
toggleMember_AlwaysPush(checks, id) == Append(checks, id)

toggleMember(checks, id) ==
    IF id \notin Range(checks) THEN Append(checks, id)
    ELSE RemoveFirst(checks, id)

(***************************************************************************)
(* src/app.js: the page.  Init is the page opened on empty storage, after  *)
(* the first rendering of the DOMContentLoaded listener.                   *)
(***************************************************************************)
AppInit ==
    /\ now \in { d * TicksPerDay : d \in StartDays }
    /\ schedules = << >>
    /\ routines = << >>
    /\ routineChecks = << >>
    /\ nClock = 0
    /\ deleteTarget = NoTarget
    /\ dashboard = updateDashboard(<< >>, << >>, now)
    /\ todayRoutineList = << >>

Ids(seq) == { seq[i].id : i \in DOMAIN seq }

\* findIndex(x => x.id === id): 0 stands for -1.
findIndex(seq, id) ==
    IF id \in Ids(seq) THEN CHOOSE i \in DOMAIN seq : seq[i].id = id ELSE 0

\* filter(x => x.id !== id)
filterOutId(seq, id) == SelectSeq(seq, LAMBDA x : x.id # id)

\* Every id that storage or the rendered page still refers to.
UsedIds ==
    Ids(schedules) \cup Ids(routines) \cup Ids(todayRoutineList)
      \cup Ids(todos) \cup Ids(memos) \cup Ids(memoList)
      \cup UNION { Range(routineChecks[k]) : k \in DOMAIN routineChecks }
      \cup { dashboard.list[i].id[2] : i \in DOMAIN dashboard.list }
      \cup { deleteTarget.id }

\* generateId(): a clock-and-random string, never equal to an id in use.
\* Ids are interchangeable, so the least free one stands for it.
CanGenerateId == \E n \in 1..MaxId : n \notin UsedIds

generateId == CHOOSE n \in 1..MaxId : n \notin UsedIds /\ \A m \in 1..(n - 1) : m \in UsedIds

\* The delete confirmation dialog is modal: while it is open the page
\* behind it takes no clicks.
NoDialog == deleteTarget = NoTarget

\* Time passes between two events.
Tick(dt) ==
    /\ nClock < MaxClockSteps
    /\ nClock' = nClock + 1
    /\ now' = now + dt
    /\ UNCHANGED << schedules, routines, routineChecks, deleteTarget,
                    dashboard, todayRoutineList >>
    /\ UNCHANGED notAppVars

\* The comparator of renderMemoList: new Date(b.updatedAt) - new Date(a.updatedAt).
\* a stays in front of b unless the difference is positive.
memoBefore(a, b) == ~(b.updatedAt - a.updatedAt > 0)

\* Array.prototype.sort is stable: an element goes behind everything it
\* does not have to precede.
InsertMemo(sorted, m) ==
    LET ahead == { i \in DOMAIN sorted : memoBefore(sorted[i], m) }
        pos   == IF \A i \in DOMAIN sorted : i \in ahead
                   THEN Len(sorted) + 1
                   ELSE CHOOSE i \in DOMAIN sorted :
                          /\ i \notin ahead
                          /\ \A j \in 1..(i - 1) : j \in ahead
    IN  SubSeq(sorted, 1, pos - 1) \o << m >> \o SubSeq(sorted, pos, Len(sorted))

RECURSIVE sortMemos(_)
sortMemos(ms) ==
    IF ms = << >> THEN << >>
    ELSE InsertMemo(sortMemos(SubSeq(ms, 1, Len(ms) - 1)), ms[Len(ms)])

\* renderMemoList(): the cards of the memo tab, in listing order.
renderMemoList(ms) == sortMemos(ms)

\* The page is (re)loaded: DOMContentLoaded listener (app.js 1170-1183).
DOMContentLoaded ==
    /\ dashboard' = updateDashboard(schedules, routines, now)
    /\ schedules' = dashboard'.stored
    /\ todayRoutineList' = renderTodayRoutines(routines, routineChecks, now)
    /\ memoList' = renderMemoList(memos)
    /\ deleteTarget' = NoTarget
    /\ UNCHANGED << now, routines, routineChecks, nClock >>
    /\ UNCHANGED << swVars, todos, memos, rawVars >>

\* Variant of savedSchedules: an edit whose id is not found is stored as a
\* new item under that id.
savedSchedules_Upsert(scheds, id, title, date, newId) ==
    IF id # 0 /\ findIndex(scheds, id) # 0
      THEN [ scheds EXCEPT ![findIndex(scheds, id)] =
               [ @ EXCEPT !.title = title, !.date = date ] ]
      ELSE Append(scheds, [ id |-> IF id # 0 THEN id ELSE newId,
                            title |-> title, date |-> date ])

\* The schedule collection that saveSchedule saves (app.js 964-980).
savedSchedules(scheds, id, title, date, newId) ==
    IF id # 0
      THEN IF findIndex(scheds, id) # 0
             THEN [ scheds EXCEPT ![findIndex(scheds, id)] =
                      [ @ EXCEPT !.title = title, !.date = date ] ]
             ELSE scheds
      ELSE Append(scheds, [ id |-> newId, title |-> title, date |-> date ])

\* saveSchedule(e): the form holds the id of the edited item (0: a new one),
\* the trimmed title and the date (hasDate: the date field is filled in).
SaveSchedule(id, title, hasDate, date) ==
    /\ NoDialog
    /\ id = 0 => Len(schedules) < MaxSchedules /\ CanGenerateId
    /\ IF title = "" \/ ~hasDate
         THEN UNCHANGED << schedules, dashboard >>
         ELSE /\ dashboard' = updateDashboard(
                     savedSchedules(schedules, id, title, date, generateId),
                     routines, now)
              /\ schedules' = dashboard'.stored
    /\ UNCHANGED << now, routines, routineChecks, nClock, deleteTarget,
                    todayRoutineList >>
    /\ UNCHANGED notAppVars

\* The routine collection that saveRoutine saves (app.js 1083-1105).
savedRoutines(routs, id, title, frequency, weekdays, newId) ==
    IF id # 0
      THEN IF findIndex(routs, id) # 0
             THEN [ routs EXCEPT ![findIndex(routs, id)] =
                      [ @ EXCEPT !.title = title, !.frequency = frequency,
                                 !.weekdays = weekdays ] ]
             ELSE routs
      ELSE Append(routs, [ id |-> newId, title |-> title,
                           frequency |-> frequency, weekdays |-> weekdays,
                           enabled |-> TRUE ])

\* The weekdays saveRoutine collects: the ticked boxes when weekly, else [].
collectedWeekdays(frequency, ticked) ==
    IF frequency = "weekly" THEN ticked ELSE {}

\* Variant of routineFormRejected: the weekday check is left out.
routineFormRejected_NoWeekdayCheck(title, frequency, weekdays) ==
    title = "" \/ frequency = ""

\* The two early returns of saveRoutine (app.js 1070, 1078-1081).
routineFormRejected(title, frequency, weekdays) ==
    \/ title = "" \/ frequency = ""
    \/ (frequency = "weekly" /\ weekdays = {})

\* saveRoutine(e)
SaveRoutine(id, title, frequency, ticked) ==
    /\ NoDialog
    /\ id = 0 => Len(routines) < MaxRoutines /\ CanGenerateId
    /\ IF routineFormRejected(title, frequency,
                               collectedWeekdays(frequency, ticked))
         THEN UNCHANGED << schedules, routines, dashboard, todayRoutineList >>
         ELSE /\ routines' = savedRoutines(routines, id, title, frequency,
                                 collectedWeekdays(frequency, ticked), generateId)
              /\ todayRoutineList' =
                     renderTodayRoutines(routines', routineChecks, now)
              /\ dashboard' = updateDashboard(schedules, routines', now)
              /\ schedules' = dashboard'.stored
    /\ UNCHANGED << now, routineChecks, nClock, deleteTarget >>
    /\ UNCHANGED notAppVars

\* toggleRoutine(id)
ToggleRoutine(id) ==
    /\ NoDialog
    /\ IF findIndex(routines, id) # 0
         THEN /\ routines' =
                     [ routines EXCEPT ![findIndex(routines, id)].enabled = ~@ ]
              /\ todayRoutineList' =
                     renderTodayRoutines(routines', routineChecks, now)
              /\ dashboard' = updateDashboard(schedules, routines', now)
              /\ schedules' = dashboard'.stored
         ELSE UNCHANGED << schedules, routines, dashboard, todayRoutineList >>
    /\ UNCHANGED << now, routineChecks, nClock, deleteTarget >>
    /\ UNCHANGED notAppVars

\* Variant of checksWriteAborted: the write goes ahead on a fresh log.
checksWriteAborted_StartFresh(corrupt) == FALSE

\* saveRoutineChecks reads and parses the stored log inside its try block
\* (app.js 155-157): unparsable text throws there, the catch (167-169)
\* logs, and setItem (166) is never reached.
checksWriteAborted(corrupt) == corrupt

\* toggleRoutineCheck(id): a click on a box of the visible checklist.
ToggleRoutineCheck(id, tz) ==
    /\ NoDialog
    /\ id \in Ids(todayRoutineList)
    /\ routineChecks' =
           IF checksWriteAborted(checksCorrupt) THEN routineChecks
           ELSE saveRoutineChecks(routineChecks,
                    toggleMember(getRoutineChecks(routineChecks, now), id),
                    now, tz)
    /\ todayRoutineList' = renderTodayRoutines(routines, routineChecks', now)
    /\ dashboard' = updateDashboard(schedules, routines, now)
    /\ schedules' = dashboard'.stored
    /\ UNCHANGED << now, routines, nClock, deleteTarget >>
    /\ checksCorrupt' = (checksCorrupt /\ checksWriteAborted(checksCorrupt))
    /\ UNCHANGED << swVars, listVars, lsRaw, lsRet >>

\* deleteScheduleConfirm(id) / deleteRoutineConfirm(id) /
\* deleteMemoConfirm(id): a delete button opens the confirmation dialog.
DeleteConfirm(type, id) ==
    /\ NoDialog
    /\ deleteTarget' = [ type |-> type, id |-> id ]
    /\ UNCHANGED << now, schedules, routines, routineChecks, nClock,
                    dashboard, todayRoutineList >>
    /\ UNCHANGED notAppVars

\* closeDeleteModal(): the dialog is cancelled.
CloseDeleteModal ==
    /\ deleteTarget # NoTarget
    /\ deleteTarget' = NoTarget
    /\ UNCHANGED << now, schedules, routines, routineChecks, nClock,
                    dashboard, todayRoutineList >>
    /\ UNCHANGED notAppVars

\* confirmDelete()
ConfirmDelete ==
    /\ deleteTarget # NoTarget
    /\ IF deleteTarget.type = "schedule"
         THEN /\ dashboard' = updateDashboard(
                     filterOutId(schedules, deleteTarget.id), routines, now)
              /\ schedules' = dashboard'.stored
              /\ UNCHANGED << routines, todayRoutineList >>
              /\ UNCHANGED << memos, memoList >>
         ELSE IF deleteTarget.type = "routine"
         THEN /\ routines' = filterOutId(routines, deleteTarget.id)
              /\ todayRoutineList' =
                     renderTodayRoutines(routines', routineChecks, now)
              /\ dashboard' = updateDashboard(schedules, routines', now)
              /\ schedules' = dashboard'.stored
              /\ UNCHANGED << memos, memoList >>
         ELSE /\ memos' = filterOutId(memos, deleteTarget.id)
              /\ memoList' = renderMemoList(memos')
              /\ UNCHANGED << schedules, routines, dashboard,
                              todayRoutineList >>
    /\ deleteTarget' = NoTarget
    /\ UNCHANGED << now, routineChecks, nClock >>
    /\ UNCHANGED << swVars, todos, rawVars >>

\* The worker's variables while only the page is observed.
SWIdle ==
    /\ caches = << >>
    /\ swState = "installing"
    /\ installPc = "open"
    /\ addAllResp = [ a \in Assets |-> "pending" ]
    /\ skipWaitingCalled = FALSE
    /\ activatePc = "idle"
    /\ cacheNames = {}
    /\ deletePending = {}
    /\ clientsClaimed = FALSE
    /\ fetchEv = [ f \in 1..MaxFetch |-> NoFetch ]
    /\ nFetch = 0
    /\ putPending = {}

(***************************************************************************)
(* To-dos (app.js 735-779).  renderTodoList and renderDashboardTodos only  *)
(* redraw the stored list.                                                 *)
(***************************************************************************)
TodoTexts == { "", "x" }

\* addTodo(): text is the trimmed input.
AddTodo(text) ==
    /\ NoDialog
    /\ IF text = ""
         THEN UNCHANGED todos
         ELSE /\ Len(todos) < MaxTodos /\ CanGenerateId
              /\ todos' = Append(todos, [ id |-> generateId, text |-> text,
                                          completed |-> FALSE,
                                          createdAt |-> now ])
    /\ UNCHANGED << swVars, appVars, memos, memoList, rawVars >>

\* toggleTodo(id)
ToggleTodo(id) ==
    /\ NoDialog
    /\ IF findIndex(todos, id) # 0
         THEN todos' = [ todos EXCEPT ![findIndex(todos, id)].completed = ~@ ]
         ELSE UNCHANGED todos
    /\ UNCHANGED << swVars, appVars, memos, memoList, rawVars >>

\* deleteTodo(id)
DeleteTodo(id) ==
    /\ NoDialog
    /\ todos' = filterOutId(todos, id)
    /\ UNCHANGED << swVars, appVars, memos, memoList, rawVars >>

(***************************************************************************)
(* Memos (app.js 788-901).  Timestamps are ISO strings of the clock value, *)
(* printed and parsed back without loss, so the clock value stands for     *)
(* them.                                                                   *)
(***************************************************************************)
MemoContents == { "", "c" }

\* Variant of savedMemos: an edit leaves updatedAt alone.
savedMemos_KeepStamp(ms, id, title, content, t, newId) ==
    IF id # 0
      THEN IF findIndex(ms, id) # 0
             THEN [ ms EXCEPT ![findIndex(ms, id)] =
                      [ @ EXCEPT !.title = title, !.content = content ] ]
             ELSE ms
      ELSE Append(ms, [ id |-> newId, title |-> title, content |-> content,
                        createdAt |-> t, updatedAt |-> t ])

\* The memo collection that saveMemoForm saves (app.js 875-889).
savedMemos(ms, id, title, content, t, newId) ==
    IF id # 0
      THEN IF findIndex(ms, id) # 0
             THEN [ ms EXCEPT ![findIndex(ms, id)] =
                      [ @ EXCEPT !.title = title, !.content = content,
                                 !.updatedAt = t ] ]
             ELSE ms
      ELSE Append(ms, [ id |-> newId, title |-> title, content |-> content,
                        createdAt |-> t, updatedAt |-> t ])

\* saveMemoForm(e): the form holds the id of the edited memo (0: a new one).
SaveMemoForm(id, title, content) ==
    /\ NoDialog
    /\ id = 0 => Len(memos) < MaxMemos /\ CanGenerateId
    /\ IF title = ""
         THEN UNCHANGED << memos, memoList >>
         ELSE /\ memos' = savedMemos(memos, id, title, content, now, generateId)
              /\ memoList' = renderMemoList(memos')
    /\ UNCHANGED << swVars, appVars, todos, rawVars >>

(***************************************************************************)
(* The persistence gateway (app.js 46-67), over the raw text localStorage  *)
(* holds under each collection key.                                        *)
(***************************************************************************)
StorageKeys ==
    { "deadline_schedules", "deadline_routines", "deadline_todos",
      "deadline_memos" }

\* Arrays that stand for stored collections.
JsonValues == { << >>, << 1 >> }

\* getItem gives null for a missing key, else the stored text: empty,
\* text that JSON.parse rejects, or the serialisation of a value.
Missing == [ kind |-> "missing", value |-> << >> ]
EmptyText == [ kind |-> "empty", value |-> << >> ]
CorruptText == [ kind |-> "corrupt", value |-> << >> ]
JSONstringify(v) == [ kind |-> "json", value |-> v ]

RawContents ==
    { Missing, EmptyText, CorruptText } \cup { JSONstringify(v) : v \in JsonValues }

\* JSON.parse(data)
JSONparse(raw) == [ threw |-> raw.kind = "corrupt", value |-> raw.value ]

\* The try block of loadFromStorage: data ? JSON.parse(data) : []
loadBody(raw) ==
    IF raw.kind \in { "missing", "empty" }
      THEN [ threw |-> FALSE, value |-> << >> ]
      ELSE JSONparse(raw)

\* Variant of loadFromStorage: no catch around the parse.
loadFromStorage_NoCatch(raw) == loadBody(raw)

\* loadFromStorage(key): the catch logs and returns [].
loadFromStorage(raw) ==
    IF loadBody(raw).threw THEN [ threw |-> FALSE, value |-> << >> ]
    ELSE loadBody(raw)

\* What can happen inside saveToStorage's try block: JSON.stringify throws,
\* setItem throws (quota), or the text is stored.
SaveOutcomes == { "ok", "quota", "unserializable" }

\* The try block of saveToStorage: setItem(key, JSON.stringify(data)).
saveBody(raw, data, outcome) ==
    [ threw |-> outcome # "ok",
      raw   |-> IF outcome = "ok" THEN JSONstringify(data) ELSE raw ]

\* saveToStorage(key, data): the catch logs and returns.
saveToStorage(raw, data, outcome) ==
    [ saveBody(raw, data, outcome) EXCEPT !.threw = FALSE ]

NoCall ==
    [ op |-> "none", key |-> "", before |-> Missing, outcome |-> "ok",
      threw |-> FALSE, value |-> << >> ]

\* A caller loads the collection under key.
LoadFromStorage(key) ==
    /\ lsRet' = [ op |-> "load", key |-> key, before |-> lsRaw[key],
                  outcome |-> "ok",
                  threw |-> loadFromStorage(lsRaw[key]).threw,
                  value |-> loadFromStorage(lsRaw[key]).value ]
    /\ UNCHANGED << lsRaw, checksCorrupt >>
    /\ UNCHANGED << swVars, appVars, listVars >>

\* A caller saves data under key.
SaveToStorage(key, data, outcome) ==
    /\ lsRaw' = [ lsRaw EXCEPT ![key] =
                    saveToStorage(lsRaw[key], data, outcome).raw ]
    /\ lsRet' = [ op |-> "save", key |-> key, before |-> lsRaw[key],
                  outcome |-> outcome,
                  threw |-> saveToStorage(lsRaw[key], data, outcome).threw,
                  value |-> data ]
    /\ UNCHANGED checksCorrupt
    /\ UNCHANGED << swVars, appVars, listVars >>

\* To-dos and memos on empty storage.
ListIdle ==
    /\ todos = << >>
    /\ memos = << >>
    /\ memoList = << >>

\* The storage gateway while only the page's collections are observed.
GatewayIdle ==
    /\ lsRaw = [ k \in StorageKeys |-> Missing ]
    /\ lsRet = NoCall

RawIdle == checksCorrupt = FALSE /\ GatewayIdle

Init == AppInit /\ SWIdle /\ ListIdle /\ RawIdle

Next ==
    \/ \E dt \in ClockSteps : Tick(dt)
    \/ DOMContentLoaded
    \/ \E id \in { 0 } \cup Ids(schedules), title \in Titles,
          hasDate \in BOOLEAN, date \in ScheduleDates :
            SaveSchedule(id, title, hasDate, date)
    \/ \E id \in { 0 } \cup Ids(routines), title \in Titles,
          frequency \in Frequencies, ticked \in WeekdayChoices :
            SaveRoutine(id, title, frequency, ticked)
    \/ \E id \in Ids(routines) : ToggleRoutine(id)
    \/ \E id \in 1..MaxId, tz \in TzOffsets : ToggleRoutineCheck(id, tz)
    \/ \E id \in Ids(schedules) : DeleteConfirm("schedule", id)
    \/ \E id \in Ids(routines) : DeleteConfirm("routine", id)
    \/ CloseDeleteModal
    \/ ConfirmDelete

Spec == Init /\ [][Next]_vars

\* Every routine a user can store, on each weekday: the resolution of
\* today's occurrences applied to each of them.
AllWeekdaySets == SUBSET (0..6)

StorableRoutines ==
    { [ id |-> 1, title |-> "t", frequency |-> "daily", weekdays |-> {},
        enabled |-> e ] : e \in BOOLEAN }
    \cup { [ id |-> 1, title |-> "t", frequency |-> "weekly", weekdays |-> w,
             enabled |-> e ] : e \in BOOLEAN, w \in AllWeekdaySets \ { {} } }

WeekOfDays == { d + i : d \in StartDays, i \in 0..6 }

DueInit ==
    /\ now \in { d * TicksPerDay : d \in WeekOfDays }
    /\ schedules = << >>
    /\ routines \in { << r >> : r \in StorableRoutines }
    /\ routineChecks = << >>
    /\ nClock = 0
    /\ deleteTarget = NoTarget
    /\ dashboard = updateDashboard(<< >>, routines, now)
    /\ todayRoutineList = renderTodayRoutines(routines, << >>, now)
    /\ SWIdle /\ ListIdle /\ RawIdle

DueNext ==
    \/ DOMContentLoaded
    \/ \E id \in Ids(routines) : ToggleRoutine(id)

DueSpec == DueInit /\ [][DueNext]_vars

\* The memo tab on its own.
MemoNext ==
    \/ \E dt \in { 1 } : Tick(dt)
    \/ DOMContentLoaded
    \/ \E id \in { 0 } \cup Ids(memos), title \in Titles,
          content \in MemoContents : SaveMemoForm(id, title, content)
    \/ \E id \in Ids(memos) : DeleteConfirm("memo", id)
    \/ CloseDeleteModal
    \/ ConfirmDelete

MemoSpec == Init /\ [][MemoNext]_vars

\* The handlers called with any id, listed or not: a button of a view that
\* another tab has made stale, or a form opened before the item went away.
StaleNext ==
    \/ \E id \in 0..MaxId, title \in Titles, date \in ScheduleDates :
          SaveSchedule(id, title, TRUE, date)
    \/ \E id \in 0..MaxId, title \in Titles, ticked \in WeekdayChoices :
          SaveRoutine(id, title, "weekly", ticked)
    \/ \E id \in 1..MaxId : ToggleRoutine(id)
    \/ \E text \in TodoTexts : AddTodo(text)
    \/ \E id \in 1..MaxId : ToggleTodo(id)
    \/ \E id \in 1..MaxId : DeleteTodo(id)
    \/ \E id \in 0..MaxId, title \in Titles, content \in MemoContents :
          SaveMemoForm(id, title, content)
    \/ \E type \in { "schedule", "routine", "memo" }, id \in 1..MaxId :
          DeleteConfirm(type, id)
    \/ CloseDeleteModal
    \/ ConfirmDelete

StaleSpec == Init /\ [][StaleNext]_vars

\* The gateway on its own, over every content the keys can hold.
GatewayInit ==
    /\ AppInit /\ SWIdle /\ ListIdle
    /\ checksCorrupt = FALSE
    /\ lsRaw \in [ StorageKeys -> RawContents ]
    /\ lsRet = NoCall

GatewayNext ==
    \/ \E key \in StorageKeys : LoadFromStorage(key)
    \/ \E key \in StorageKeys, data \in JsonValues, outcome \in SaveOutcomes :
          SaveToStorage(key, data, outcome)

GatewaySpec == GatewayInit /\ [][GatewayNext]_vars

\* The page opened on a completion log that cannot be parsed: routineChecks
\* holds no map then, and reads as the empty one wherever a catch returns [].
CorruptInit == AppInit /\ SWIdle /\ ListIdle /\ checksCorrupt = TRUE /\ GatewayIdle

CorruptSpec == CorruptInit /\ [][Next]_vars

(***************************************************************************)
(* Initial state of the service worker: the script has been registered and *)
(* the install event is about to run.  Stale caches may exist.             *)
(***************************************************************************)
SWInit ==
    /\ \E stale \in SUBSET StaleCacheNames :
          caches = [ n \in stale |-> {"/index.html"} ]
    /\ swState = "installing"
    /\ installPc = "open"
    /\ addAllResp = [ a \in Assets |-> "pending" ]
    /\ skipWaitingCalled = FALSE
    /\ activatePc = "idle"
    /\ cacheNames = {}
    /\ deletePending = {}
    /\ clientsClaimed = FALSE
    /\ fetchEv = [ f \in 1..MaxFetch |-> NoFetch ]
    /\ nFetch = 0
    /\ putPending = {}
    /\ AppInit /\ ListIdle /\ RawIdle

(***************************************************************************)
(* install listener (sw.js 18-30):                                         *)
(*   waitUntil(caches.open(CACHE_NAME).then(c => c.addAll(ASSETS))         *)
(*                                    .then(() => self.skipWaiting()))     *)
(***************************************************************************)
\* caches.open(CACHE_NAME) resolves; addAll starts one fetch per asset.
InstallOpen ==
    /\ swState = "installing"
    /\ installPc = "open"
    /\ caches' = CachesOpen(caches, CACHE_NAME)
    /\ installPc' = "addAll"
    /\ UNCHANGED << swState, addAllResp, skipWaitingCalled, activatePc,
                    cacheNames, deletePending, clientsClaimed, fetchEv,
                    nFetch, putPending >>
    /\ UNCHANGED notSWVars

\* Variant of AddAllOnResponse: a failed asset is skipped, not fatal.
AddAllOnResponse_IgnoreError(o) == "addAll"

\* Position of the install chain after one asset's response has arrived:
\* cache.addAll rejects as soon as one response is an error.
AddAllOnResponse(o) == IF o = "ok" THEN "addAll" ELSE "failed"

\* A rejected waitUntil promise makes the installing worker redundant.
InstallStateAfter(pc) == IF pc = "failed" THEN "redundant" ELSE "installing"

\* One of the asset fetches of cache.addAll settles.
InstallFetchAsset(a, o) ==
    /\ installPc = "addAll"
    /\ addAllResp[a] = "pending"
    /\ addAllResp' = [ addAllResp EXCEPT ![a] = IF o = "ok" THEN "ok" ELSE "error" ]
    /\ installPc' = AddAllOnResponse(o)
    /\ swState' = InstallStateAfter(installPc')
    /\ UNCHANGED << caches, skipWaitingCalled, activatePc, cacheNames,
                    deletePending, clientsClaimed, fetchEv, nFetch, putPending >>
    /\ UNCHANGED notSWVars

\* Every response has arrived: addAll stores the batch (or the store fails,
\* which rejects addAll and leaves the cache as it was).
InstallStoreAll(o) ==
    /\ installPc = "addAll"
    /\ \A a \in Assets : addAllResp[a] # "pending"
    /\ IF o = "ok"
         THEN /\ caches' = CachePutAll(caches, CACHE_NAME,
                               { a \in Assets : addAllResp[a] = "ok" })
              /\ installPc' = "skipWaiting"
         ELSE /\ caches' = caches
              /\ installPc' = "failed"
    /\ swState' = InstallStateAfter(installPc')
    /\ UNCHANGED << addAllResp, skipWaitingCalled, activatePc, cacheNames,
                    deletePending, clientsClaimed, fetchEv, nFetch, putPending >>
    /\ UNCHANGED notSWVars

\* .then(() => self.skipWaiting()): the waitUntil promise resolves and the
\* install event signals success.
InstallSkipWaiting ==
    /\ installPc = "skipWaiting"
    /\ skipWaitingCalled' = TRUE
    /\ installPc' = "done"
    /\ swState' = "installed"
    /\ UNCHANGED << caches, addAllResp, activatePc, cacheNames, deletePending,
                    clientsClaimed, fetchEv, nFetch, putPending >>
    /\ UNCHANGED notSWVars

(***************************************************************************)
(* activate listener (sw.js 33-48):                                        *)
(*   waitUntil(caches.keys().then(names => Promise.all(                    *)
(*       names.filter(n => n !== CACHE_NAME).map(n => caches.delete(n))))  *)
(*     .then(() => self.clients.claim()))                                  *)
(***************************************************************************)
\* cacheNames.filter((name) => name !== CACHE_NAME)
StaleNames(names) == { n \in names : n # CACHE_NAME }

\* caches.keys() resolves; every stale cache's delete is started at once.
ActivateKeys ==
    /\ swState = "installed"
    /\ activatePc = "idle"
    /\ swState' = "activating"
    /\ cacheNames' = DOMAIN caches
    /\ deletePending' = StaleNames(DOMAIN caches)
    /\ activatePc' = "deleting"
    /\ UNCHANGED << caches, installPc, addAllResp, skipWaitingCalled,
                    clientsClaimed, fetchEv, nFetch, putPending >>
    /\ UNCHANGED notSWVars

\* One caches.delete promise settles.  A rejection rejects Promise.all, so
\* the claim step is skipped; the worker still becomes active.
ActivateDeleteSettle(n, o) ==
    /\ activatePc \in { "deleting", "failed" }
    /\ n \in deletePending
    /\ deletePending' = deletePending \ {n}
    /\ IF o = "ok"
         THEN /\ caches' = CachesDelete(caches, n)
              /\ UNCHANGED << activatePc, swState >>
         ELSE /\ caches' = caches
              /\ activatePc' = "failed"
              /\ swState' = "activated"
    /\ UNCHANGED << installPc, addAllResp, skipWaitingCalled, cacheNames,
                    clientsClaimed, fetchEv, nFetch, putPending >>
    /\ UNCHANGED notSWVars

\* Variant of ClaimReady: the claim does not wait for the deletes.
ClaimReady_NoWait(pc, pending) == pc = "deleting"

\* Promise.all has resolved: every started delete has resolved.
ClaimReady(pc, pending) == pc = "deleting" /\ pending = {}

\* .then(() => self.clients.claim())
ActivateClaim ==
    /\ ClaimReady(activatePc, deletePending)
    /\ clientsClaimed' = TRUE
    /\ activatePc' = "done"
    /\ swState' = "activated"
    /\ UNCHANGED << caches, installPc, addAllResp, skipWaitingCalled,
                    cacheNames, deletePending, fetchEv, nFetch, putPending >>
    /\ UNCHANGED notSWVars

(***************************************************************************)
(* fetch listener (sw.js 51-83).                                           *)
(***************************************************************************)
\* A page request is dispatched to the active worker.
FetchStart(url, dest) ==
    /\ swState = "activated"
    /\ nFetch < MaxFetch
    /\ nFetch' = nFetch + 1
    /\ fetchEv' = [ fetchEv EXCEPT ![nFetch + 1] =
                      [ pc |-> "match", url |-> url, dest |-> dest,
                        hit |-> FALSE, net |-> "none", resp |-> "none" ] ]
    /\ UNCHANGED << caches, swState, installPc, addAllResp, skipWaitingCalled,
                    activatePc, cacheNames, deletePending, clientsClaimed,
                    putPending >>
    /\ UNCHANGED notSWVars

\* Variant of OnMatch: network-first, the cached response is not returned.
OnMatch_AlwaysNetwork(ev, hit) == [ ev EXCEPT !.hit = hit, !.pc = "network" ]

\* if (cachedResponse) return cachedResponse; else fetch(event.request)
OnMatch(ev, hit) ==
    IF hit
      THEN [ ev EXCEPT !.hit = TRUE, !.resp = "cached", !.pc = "done" ]
      ELSE [ ev EXCEPT !.pc = "network" ]

\* caches.match(event.request) resolves.
FetchMatch(f) ==
    /\ fetchEv[f].pc = "match"
    /\ fetchEv' = [ fetchEv EXCEPT
                      ![f] = OnMatch(@, CachesMatch(caches, fetchEv[f].url)) ]
    /\ UNCHANGED << caches, swState, installPc, addAllResp, skipWaitingCalled,
                    activatePc, cacheNames, deletePending, clientsClaimed,
                    nFetch, putPending >>
    /\ UNCHANGED notSWVars

\* !response || response.status !== 200 || response.type !== 'basic'
Cacheable(o) == o = "ok200basic"

\* The puts that are in flight once the response callback has returned:
\* caches.open(...).then(cache => cache.put(...)) is started, not awaited.
PutsAfterResponse(pending, url, o) ==
    IF Cacheable(o) THEN pending \cup {url} ELSE pending

\* fetch(event.request) settles.
FetchNetwork(f, o) ==
    /\ fetchEv[f].pc = "network"
    /\ IF o = "reject"
         THEN /\ fetchEv' = [ fetchEv EXCEPT ![f].net = o, ![f].pc = "catch" ]
              /\ putPending' = putPending
         ELSE /\ fetchEv' = [ fetchEv EXCEPT ![f].net = o,
                                ![f].resp = "network", ![f].pc = "done" ]
              /\ putPending' = PutsAfterResponse(putPending, fetchEv[f].url, o)
    /\ UNCHANGED << caches, swState, installPc, addAllResp, skipWaitingCalled,
                    activatePc, cacheNames, deletePending, clientsClaimed,
                    nFetch >>
    /\ UNCHANGED notSWVars

\* Variant of CatchResponse: the fallback is served for every destination.
CatchResponse_AnyDestination(dest, cs) ==
    IF CachesMatch(cs, "/index.html") THEN "index.html" ELSE "undefined"

\* .catch(() => { if (destination === 'document')
\*                    return caches.match('/index.html'); })
\* The callback returns nothing otherwise, so respondWith receives undefined
\* and the page sees a network error.
CatchResponse(dest, cs) ==
    IF dest = "document"
      THEN IF CachesMatch(cs, "/index.html") THEN "index.html" ELSE "undefined"
      ELSE "undefined"

FetchCatch(f) ==
    /\ fetchEv[f].pc = "catch"
    /\ fetchEv' = [ fetchEv EXCEPT
                      ![f].resp = CatchResponse(fetchEv[f].dest, caches),
                      ![f].pc = "done" ]
    /\ UNCHANGED << caches, swState, installPc, addAllResp, skipWaitingCalled,
                    activatePc, cacheNames, deletePending, clientsClaimed,
                    nFetch, putPending >>
    /\ UNCHANGED notSWVars

\* The detached caches.open(CACHE_NAME).then(cache => cache.put(...)) runs.
CachePutSettle(url, o) ==
    /\ url \in putPending
    /\ putPending' = putPending \ {url}
    /\ caches' = IF o = "ok" THEN CachePutAll(caches, CACHE_NAME, {url})
                 ELSE CachesOpen(caches, CACHE_NAME)
    /\ UNCHANGED << swState, installPc, addAllResp, skipWaitingCalled,
                    activatePc, cacheNames, deletePending, clientsClaimed,
                    fetchEv, nFetch >>
    /\ UNCHANGED notSWVars

SWNext ==
    \/ InstallOpen
    \/ \E a \in Assets, o \in IoOutcomes : InstallFetchAsset(a, o)
    \/ \E o \in IoOutcomes : InstallStoreAll(o)
    \/ InstallSkipWaiting
    \/ ActivateKeys
    \/ \E n \in StaleCacheNames, o \in IoOutcomes : ActivateDeleteSettle(n, o)
    \/ ActivateClaim
    \/ \E url \in RequestUrls, dest \in Destinations : FetchStart(url, dest)
    \/ \E f \in 1..MaxFetch : FetchMatch(f)
    \/ \E f \in 1..MaxFetch, o \in NetOutcomes : FetchNetwork(f, o)
    \/ \E f \in 1..MaxFetch : FetchCatch(f)
    \/ \E url \in RequestUrls, o \in IoOutcomes : CachePutSettle(url, o)

SWSpec == SWInit /\ [][SWNext]_vars

(***************************************************************************)
(* Properties of the offline asset cache controller (checked under SWSpec) *)
(***************************************************************************)
InstallSignalledSuccess ==
    swState \in { "installed", "activating", "activated" }

\* C1: the install event signals success, and skipWaiting is reached, only
\* when every listed asset has been fetched and is stored in the versioned
\* cache; once any asset fetch (or the store) has failed, the install has
\* failed, skipWaiting is not reached and success is never signalled.
C1_InstallAtomic ==
    /\ (InstallSignalledSuccess \/ skipWaitingCalled) =>
          /\ \A a \in Assets : addAllResp[a] = "ok"
          /\ CACHE_NAME \in DOMAIN caches
          /\ Assets \subseteq caches[CACHE_NAME]
    /\ ((\E a \in Assets : addAllResp[a] = "error") \/ installPc = "failed") =>
          /\ swState = "redundant"
          /\ ~skipWaitingCalled

C1_Witness ==
    /\ swState = "installed"
    /\ skipWaitingCalled
    /\ Assets \subseteq caches[CACHE_NAME]

\* C2: when clients.claim has been called, every cache whose identifier
\* differs from the current version tag has been deleted: no delete is
\* outstanding and no cache other than the current-version one exists.
C2_ClaimAfterCleanup ==
    clientsClaimed =>
        /\ deletePending = {}
        /\ DOMAIN caches \subseteq { CACHE_NAME }

C2_Witness ==
    /\ clientsClaimed
    /\ StaleNames(cacheNames) = StaleCacheNames
    /\ DOMAIN caches = { CACHE_NAME }

\* C3: a fetch event whose request matched a cached response is answered
\* with that response and never reaches the network; a request for one of
\* the installed assets always matches, so it issues no network request.
C3_CacheFirst ==
    \A f \in 1..MaxFetch :
        /\ fetchEv[f].hit =>
              /\ fetchEv[f].resp = "cached"
              /\ fetchEv[f].net = "none"
              /\ fetchEv[f].pc = "done"
        /\ (fetchEv[f].url \in Assets /\ fetchEv[f].pc # "match") =>
              /\ fetchEv[f].hit
              /\ fetchEv[f].net = "none"

C3_Witness ==
    \E f \in 1..MaxFetch :
        /\ fetchEv[f].pc = "done"
        /\ fetchEv[f].url = "/styles.css"
        /\ fetchEv[f].resp = "cached"

\* C4 (as claimed): when a cache miss has been answered with a 200/basic
\* network response, the copy is already stored in the current cache.
C4_StoreBeforeReturn ==
    \A f \in 1..MaxFetch :
        (/\ fetchEv[f].pc = "done"
         /\ fetchEv[f].resp = "network"
         /\ Cacheable(fetchEv[f].net)) =>
            /\ CACHE_NAME \in DOMAIN caches
            /\ fetchEv[f].url \in caches[CACHE_NAME]

\* C5: a fetch event that missed the cache and whose network fetch was
\* rejected is answered with the cached root document when the request is
\* for a document, and otherwise with no response at all (the page sees the
\* failure; nothing is substituted).
C5_NetworkFailure ==
    \A f \in 1..MaxFetch :
        (fetchEv[f].pc = "done" /\ fetchEv[f].net = "reject") =>
            /\ ~fetchEv[f].hit
            /\ IF fetchEv[f].dest = "document"
                 THEN fetchEv[f].resp = "index.html"
                 ELSE fetchEv[f].resp = "undefined"

C5_Witness ==
    \E f, g \in 1..MaxFetch :
        /\ fetchEv[f].pc = "done" /\ fetchEv[f].net = "reject"
        /\ fetchEv[f].dest = "document" /\ fetchEv[f].resp = "index.html"
        /\ fetchEv[g].pc = "done" /\ fetchEv[g].net = "reject"
        /\ fetchEv[g].dest = "script" /\ fetchEv[g].resp = "undefined"

(***************************************************************************)
(* Properties of the dashboard (checked under Spec).  They are stated for  *)
(* the day the dashboard was rendered on, in whole calendar days.          *)
(***************************************************************************)
RenderDay == dashboard.todayStr

\* Whole calendar days from the render day to a date.
DaysLeft(d) == d - RenderDay

\* A routine is due on the render day.
DueOnRenderDay(r) ==
    /\ r.enabled
    /\ \/ r.frequency = "daily"
       \/ r.frequency = "weekly" /\ ((RenderDay + 4) % 7) \in r.weekdays

\* The routine is checked off in the render day's completion set.
CheckedOnRenderDay(id) ==
    /\ RenderDay \in DOMAIN routineChecks
    /\ id \in Range(routineChecks[RenderDay])

Cards == DOMAIN dashboard.list

ScheduleCards == { i \in Cards : ~dashboard.list[i].isRoutine }

RoutineCards == { i \in Cards : dashboard.list[i].isRoutine }

HasRoutineCard(id) ==
    \E i \in RoutineCards : dashboard.list[i].id = << "routine_", id >>

HasScheduleCard(id) ==
    \E i \in ScheduleCards : dashboard.list[i].id = << "", id >>

\* C6 (as claimed): a routine that is due and checked off for the day does
\* not appear in the feed, and a due routine that is not checked off does.
C6_DueIncompleteOnly ==
    \A k \in DOMAIN routines :
        DueOnRenderDay(routines[k]) =>
            (HasRoutineCard(routines[k].id) <=> ~CheckedOnRenderDay(routines[k].id))

\* C7 (as claimed): the summary counts use the same buckets as the card
\* styling: the urgent count is the number of schedule cards styled urgent
\* and the overdue count the number styled overdue, so a schedule item
\* dated today (styled today) is not counted as urgent.
C7_SingleSourceOfBuckets ==
    /\ dashboard.stats.urgentCount =
          Cardinality({ i \in ScheduleCards : dashboard.list[i].cardClass = "urgent" })
    /\ dashboard.stats.overdueCount =
          Cardinality({ i \in ScheduleCards : dashboard.list[i].cardClass = "overdue" })

\* C8: total is the number of stored schedule items with daysRemaining >= -14
\* (routine occurrences add nothing), urgent the number with 0 <= days <= 3
\* and overdue the number with -14 <= days < 0.
C8_SummaryCounts ==
    /\ dashboard.stats.totalCount =
          Cardinality({ k \in DOMAIN schedules : DaysLeft(schedules[k].date) >= -14 })
    /\ dashboard.stats.urgentCount =
          Cardinality({ k \in DOMAIN schedules :
                          /\ DaysLeft(schedules[k].date) >= 0
                          /\ DaysLeft(schedules[k].date) <= 3 })
    /\ dashboard.stats.overdueCount =
          Cardinality({ k \in DOMAIN schedules :
                          /\ DaysLeft(schedules[k].date) >= -14
                          /\ DaysLeft(schedules[k].date) < 0 })

\* A hidden item, an overdue item and a routine occurrence: total is 1.
C8_Witness ==
    /\ RenderDay = getTodayString(now)
    /\ Len(schedules) = 2
    /\ \E k \in DOMAIN schedules : DaysLeft(schedules[k].date) < -14
    /\ RoutineCards # {}
    /\ dashboard.stats.totalCount = 1
    /\ dashboard.stats.overdueCount = 1
    /\ dashboard.stats.urgentCount = 0

\* A step that deletes or edits the k-th stored schedule item on purpose.
DeletesOrEdits(k) ==
    \/ deleteTarget = [ type |-> "schedule", id |-> schedules[k].id ] /\ ConfirmDelete
    \/ \E title \in Titles, hasDate \in BOOLEAN, date \in ScheduleDates :
          SaveSchedule(schedules[k].id, title, hasDate, date)

\* C9: a stored schedule item has a card in the list, and is counted, if and
\* only if its daysRemaining >= -14; and no step other than a confirmed
\* delete or an edit of that very item removes or changes a stored schedule
\* item, also when it is overdue by more than 14 days.
C9_HideNotDelete ==
    /\ [](/\ \A k \in DOMAIN schedules :
                HasScheduleCard(schedules[k].id) <=> DaysLeft(schedules[k].date) >= -14
          /\ \A i \in ScheduleCards :
                \E k \in DOMAIN schedules : dashboard.list[i].id = << "", schedules[k].id >>
          /\ dashboard.stats.totalCount = Cardinality(ScheduleCards))
    /\ [][\A k \in DOMAIN schedules :
             \/ \E j \in DOMAIN schedules' : schedules'[j] = schedules[k]
             \/ DeletesOrEdits(k)]_vars

\* The dashboard was rendered today while a stored item is past the window.
C9_Witness ==
    /\ RenderDay = getTodayString(now)
    /\ \E k \in DOMAIN schedules :
          /\ DaysLeft(schedules[k].date) < -14
          /\ ~HasScheduleCard(schedules[k].id)
    /\ ScheduleCards # {}

\* Position of a card's item in the concatenation [...schedules, ...routines].
ConcatPos(card) ==
    IF card.isRoutine
      THEN Len(schedules) + findIndex(routines, card.id[2])
      ELSE findIndex(schedules, card.id[2])

\* C10: the feed is ascending in daysRemaining, and cards with equal
\* daysRemaining keep the order of the concatenation, so a schedule item due
\* on the render day stands before every routine occurrence.
C10_FeedOrder ==
    \A i, j \in Cards :
        i < j =>
            /\ DaysLeft(dashboard.list[i].date) <= DaysLeft(dashboard.list[j].date)
            /\ DaysLeft(dashboard.list[i].date) = DaysLeft(dashboard.list[j].date)
                  => ConcatPos(dashboard.list[i]) < ConcatPos(dashboard.list[j])
            /\ dashboard.list[i].isRoutine => dashboard.list[j].isRoutine
                  \/ DaysLeft(dashboard.list[j].date) > 0

\* An overdue item stored after an item due today, and a routine occurrence.
C10_Witness ==
    /\ Len(dashboard.list) = 3
    /\ Len(schedules) = 2
    /\ DaysLeft(schedules[1].date) = 0
    /\ DaysLeft(schedules[2].date) < 0
    /\ dashboard.list[1].id = << "", schedules[2].id >>
    /\ dashboard.list[2].id = << "", schedules[1].id >>
    /\ dashboard.list[3].isRoutine

\* The weekday of the day the page is looking at.
TodayWeekday == (getTodayString(now) + 4) % 7

\* C11: for every stored routine, on every weekday 0..6, the routine is
\* resolved as due today exactly when it is enabled and either daily, or
\* weekly with today's weekday among its weekdays; the dashboard feed and
\* the today-routines checklist resolve exactly the same set of routines.
C11_DueTodayMembership ==
    /\ \A k \in DOMAIN routines :
          LET r   == routines[k]
              due == /\ r.enabled
                     /\ \/ r.frequency = "daily"
                        \/ r.frequency = "weekly" /\ TodayWeekday \in r.weekdays
          IN  /\ HasRoutineCard(r.id) <=> due
              /\ r.id \in Ids(todayRoutineList) <=> due
    /\ { dashboard.list[i].id[2] : i \in RoutineCards } = Ids(todayRoutineList)

\* A weekend-only weekly routine on a Saturday, in both places.
C11_Witness ==
    /\ TodayWeekday = 6
    /\ \E k \in DOMAIN routines :
          /\ routines[k].frequency = "weekly"
          /\ routines[k].weekdays = { 0, 6 }
          /\ routines[k].enabled
          /\ HasRoutineCard(routines[k].id)
          /\ routines[k].id \in Ids(todayRoutineList)

\* C12 (as claimed): after every save of the completion log on day t, the
\* log holds all and only the previously stored date keys that are not
\* strictly older than t - 7 days (a key dated exactly t - 7 is kept, t - 8
\* and older are removed), with their contents, plus today's key.
C12_RetentionHorizon ==
    [][ routineChecks' # routineChecks =>
          LET t == getTodayString(now)
          IN  /\ DOMAIN routineChecks' =
                   { k \in DOMAIN routineChecks : k >= t - 7 } \cup { t }
              /\ \A k \in DOMAIN routineChecks' \ { t } :
                    routineChecks'[k] = routineChecks[k] ]_vars

\* The log after toggleRoutineCheck(id) is called on a stored log.
AfterToggle(checks, id, tz) ==
    saveRoutineChecks(checks, toggleMember(getRoutineChecks(checks, now), id),
                      now, tz)

\* C13 (as claimed): calling toggleRoutineCheck twice in a row for the same
\* routine on the same day returns the stored completion log to the state it
\* had before the first call.
C13_LogRestored ==
    [][ \A id \in 1..MaxId, tz \in TzOffsets :
          ToggleRoutineCheck(id, tz) /\ ~checksCorrupt =>
            \A tz2 \in TzOffsets :
              AfterToggle(routineChecks', id, tz2) = routineChecks ]_vars

\* C13 (amended): calling toggleRoutineCheck twice in a row for the same
\* routine on the same day returns today's completion set to the members it
\* had before the first call; the entries of other days that are still
\* stored keep their contents (older ones may have been pruned, and today's
\* key is stored even when it was absent).
C13_ToggleInvolution ==
    [][ \A id \in 1..MaxId, tz \in TzOffsets :
          ToggleRoutineCheck(id, tz) /\ ~checksCorrupt =>
            \A tz2 \in TzOffsets :
              LET twice == AfterToggle(routineChecks', id, tz2)
              IN  /\ Range(getRoutineChecks(twice, now))
                       = Range(getRoutineChecks(routineChecks, now))
                  /\ \A k \in DOMAIN twice \ { getTodayString(now) } :
                        k \in DOMAIN routineChecks /\ twice[k] = routineChecks[k]
      ]_vars

\* A routine was checked and unchecked again today: today's set is stored
\* and empty, next to an entry of an earlier day.
C13_Witness ==
    /\ getTodayString(now) \in DOMAIN routineChecks
    /\ routineChecks[getTodayString(now)] = << >>
    /\ \E k \in DOMAIN routineChecks : k < getTodayString(now)

\* C14: after any sequence of routine create, edit, enable/disable and
\* delete operations from an empty store, every stored weekly routine has a
\* non-empty weekdays set; a save attempt with an empty title, or with
\* frequency weekly and no weekday ticked, leaves the stored routine
\* collection unchanged.
C14_WeeklyHasWeekdays ==
    /\ [](\A k \in DOMAIN routines :
            routines[k].frequency = "weekly" => routines[k].weekdays # {})
    /\ [][ \A id \in 0..MaxId, title \in Titles, frequency \in Frequencies,
             ticked \in WeekdayChoices :
               /\ title = "" \/ (frequency = "weekly" /\ ticked = {})
               /\ SaveRoutine(id, title, frequency, ticked)
               => routines' = routines ]_vars

\* A weekly routine for Monday, Wednesday and Friday was saved and then
\* disabled.
C14_Witness ==
    \E k \in DOMAIN routines :
        /\ routines[k].frequency = "weekly"
        /\ routines[k].weekdays = { 1, 3, 5 }
        /\ ~routines[k].enabled

\* C15: the persistence gateway never throws: a load returns the empty
\* sequence when the key is missing or the stored text cannot be parsed, and
\* the stored value when it can; a save swallows quota and serialisation
\* failures, and a failed save leaves the stored content as it was.
C15_GatewayNeverThrows ==
    /\ ~lsRet.threw
    /\ lsRet.op = "load" =>
          IF lsRet.before.kind = "json"
            THEN lsRet.value = lsRet.before.value
            ELSE lsRet.value = << >>
    /\ lsRet.op = "save" =>
          lsRaw[lsRet.key] =
            IF lsRet.outcome = "ok" THEN JSONstringify(lsRet.value)
            ELSE lsRet.before

\* A save that ran out of quota over a stored one-element collection, after
\* which another key holds unparsable text.
C15_Witness ==
    /\ lsRet.op = "save"
    /\ lsRet.outcome = "quota"
    /\ lsRet.value = << >>
    /\ lsRaw[lsRet.key] = JSONstringify(<< 1 >>)
    /\ \E k \in StorageKeys : lsRaw[k] = CorruptText

\* Everything the page keeps in localStorage.
Storage == << schedules, routines, todos, memos, routineChecks, checksCorrupt >>

\* The open delete dialog names an item that is not stored.
StaleTarget ==
    \/ deleteTarget.type = "schedule" /\ deleteTarget.id \notin Ids(schedules)
    \/ deleteTarget.type = "routine" /\ deleteTarget.id \notin Ids(routines)
    \/ deleteTarget.type = "memo" /\ deleteTarget.id \notin Ids(memos)

\* C16: for an id that is not present in the relevant collection,
\* toggleRoutine, toggleTodo, deleteTodo, confirmDelete (schedule, routine
\* or memo target) and an edit-save of a schedule, routine or memo carrying
\* that id leave the contents of every stored collection unchanged.
C16_StaleIdNoOp ==
    [][ /\ \A id \in 1..MaxId :
             /\ id \notin Ids(routines) /\ ToggleRoutine(id)
                  => UNCHANGED Storage
             /\ id \notin Ids(todos) /\ (ToggleTodo(id) \/ DeleteTodo(id))
                  => UNCHANGED Storage
             /\ (/\ id \notin Ids(schedules)
                 /\ \E title \in Titles, hasDate \in BOOLEAN,
                       date \in ScheduleDates :
                         SaveSchedule(id, title, hasDate, date))
                  => UNCHANGED Storage
             /\ (/\ id \notin Ids(routines)
                 /\ \E title \in Titles, frequency \in Frequencies,
                       ticked \in WeekdayChoices :
                         SaveRoutine(id, title, frequency, ticked))
                  => UNCHANGED Storage
             /\ (/\ id \notin Ids(memos)
                 /\ \E title \in Titles, content \in MemoContents :
                         SaveMemoForm(id, title, content))
                  => UNCHANGED Storage
        /\ StaleTarget /\ ConfirmDelete => UNCHANGED Storage ]_vars

\* The delete dialog is open for a memo id that is not stored, next to a
\* stored memo, a stored schedule and a stored to-do.
C16_Witness ==
    /\ deleteTarget.type = "memo"
    /\ StaleTarget
    /\ memos # << >>
    /\ schedules # << >>
    /\ todos # << >>

\* The id is in the completion set stored for today.
CheckedToday(id) ==
    /\ getTodayString(now) \in DOMAIN routineChecks
    /\ id \in Range(routineChecks[getTodayString(now)])

\* C17: a disabled routine is in neither the dashboard feed nor the today
\* checklist from the moment toggleRoutine disables it; toggleRoutine leaves
\* the stored completion log unchanged (the id stays in today's set if it
\* was checked); re-enabling a routine that is due today makes it reappear
\* in both places, ticked in the checklist exactly if its id is in today's
\* stored set.
C17_DisableKeepsHistory ==
    /\ [](\A k \in DOMAIN routines :
            ~routines[k].enabled =>
               /\ ~HasRoutineCard(routines[k].id)
               /\ routines[k].id \notin Ids(todayRoutineList))
    /\ [][ \A id \in Ids(routines) :
             ToggleRoutine(id) =>
               LET after == routines'[findIndex(routines', id)]
               IN  /\ routineChecks' = routineChecks
                   /\ after.enabled = ~routines[findIndex(routines, id)].enabled
                   /\ ~after.enabled =>
                         /\ ~HasRoutineCard(id)'
                         /\ id \notin Ids(todayRoutineList')
                   /\ (/\ after.enabled
                       /\ \/ after.frequency = "daily"
                          \/ TodayWeekday \in after.weekdays)
                        => /\ HasRoutineCard(id)'
                           /\ \E i \in DOMAIN todayRoutineList' :
                                 /\ todayRoutineList'[i].id = id
                                 /\ todayRoutineList'[i].isChecked
                                      = CheckedToday(id) ]_vars

\* A routine was checked off today and then disabled: its id is still in
\* today's stored set while neither view shows it.
C17_Witness ==
    \E k \in DOMAIN routines :
        /\ ~routines[k].enabled
        /\ CheckedToday(routines[k].id)
        /\ ~HasRoutineCard(routines[k].id)
        /\ routines[k].id \notin Ids(todayRoutineList)

\* C18: every successful edit of an existing memo sets updatedAt to the time
\* of the edit and keeps id and createdAt; the memo listing holds the stored
\* memos ordered by updatedAt descending; and a memo created or edited at a
\* clock value later than every other memo's updatedAt is listed first.
C18_MemoRecency ==
    /\ [](/\ Range(memoList) = Range(memos)
          /\ Len(memoList) = Len(memos)
          /\ \A i, j \in DOMAIN memoList :
                i < j => memoList[i].updatedAt >= memoList[j].updatedAt)
    /\ [][ \A id \in { 0 } \cup Ids(memos), title \in Titles \ { "" },
             content \in MemoContents :
               SaveMemoForm(id, title, content) =>
                 LET saved == IF id = 0 THEN generateId ELSE id
                     after == memos'[findIndex(memos', saved)]
                 IN  /\ after.updatedAt = now
                     /\ after.title = title /\ after.content = content
                     /\ id # 0 =>
                           /\ after.id = id
                           /\ after.createdAt = memos[findIndex(memos, id)].createdAt
                           /\ Len(memos') = Len(memos)
                     /\ (\A k \in DOMAIN memos :
                            memos[k].id # saved => memos[k].updatedAt < now)
                          => memoList'[1].id = saved ]_vars

\* The first of two stored memos was edited after the second was created:
\* it is listed first, with its creation time kept.
C18_Witness ==
    /\ Len(memos) = 2
    /\ memos[1].createdAt < memos[1].updatedAt
    /\ memos[2].updatedAt < memos[1].updatedAt
    /\ memos[2].createdAt = memos[1].createdAt
    /\ memoList[1].id = memos[1].id
    /\ memoList[2].id = memos[2].id

\* C19 (as claimed): when the calendar day advances with no other operation,
\* today's completion set reads as empty (every due routine is not
\* completed) while the stored log is untouched; an entry stored for day d
\* stays in the log through every step taken on days up to d + 7; and a
\* step never modifies the members stored for a day other than today.
C19_DayRollover ==
    [][ /\ getTodayString(now') > getTodayString(now) =>
             /\ routineChecks' = routineChecks
             /\ getRoutineChecks(routineChecks', now') = << >>
        /\ \A d \in DOMAIN routineChecks :
             /\ getTodayString(now') <= d + 7 => d \in DOMAIN routineChecks'
             /\ d \in DOMAIN routineChecks' /\ d # getTodayString(now') =>
                   routineChecks'[d] = routineChecks[d] ]_vars

\* C20: when the stored completion log cannot be parsed, getRoutineChecks
\* reports every routine as not completed and toggleRoutineCheck writes
\* nothing, so the stored value stays unparsable and no routine becomes
\* completed through any sequence of operations.
C20_CorruptLogSticky ==
    /\ checksCorrupt
    /\ routineChecks = << >>
    /\ getRoutineChecks(routineChecks, now) = << >>
    /\ \A i \in DOMAIN todayRoutineList : ~todayRoutineList[i].isChecked
    /\ \A k \in DOMAIN routines : ~CheckedToday(routines[k].id)

\* The log is unparsable while the checklist shows a due routine, unticked,
\* a week after the page was opened.
C20_Witness ==
    /\ checksCorrupt
    /\ todayRoutineList # << >>
    /\ ~todayRoutineList[1].isChecked
    /\ nClock = 1
    /\ getTodayString(now) = 25

====
